---- MODULE Spec2Model ----
(***************************************************************************)
(* A model of pedarProbe: the pedar .asc table and its lookups             *)
(* (src/pedar.py, Pedar_asc), the ingestion of stance annotations          *)
(* (Pedar_Subject.add_trail, Trails_Parser) and the foot heatmap           *)
(* (src/pedarProbe/export.py, FootHeatmap).                                *)
(*                                                                         *)
(* Python strings that the code inspects character by character (regular   *)
(* expressions, float()) are sequences of one-character strings; strings   *)
(* the code only compares (the foot symbol) are TLA+ strings.  Floats are  *)
(* exact rationals <<n, d>> in lowest terms with d > 0.                    *)
(***************************************************************************)
EXTENDS Integers, Sequences, FiniteSets, TLC

VARIABLES
    tbl, call, ret,                       \* one Pedar_asc object, the last lookup made on it and what it gave
    doc, index, pc, subjects, loaded,     \* Trails_Parser: the spreadsheet, the loop, the trees, the files read
    hms, l_index, r_index, l_shape, loadCalls, lastOp   \* FootHeatmap: objects, class attributes, last operation

vars == <<tbl, call, ret, doc, index, pc, subjects, loaded,
          hms, l_index, r_index, l_shape, loadCalls, lastOp>>

tableVars == <<tbl, call, ret>>
ingestVars == <<doc, index, pc, subjects, loaded>>
heatVars == <<hms, l_index, r_index, l_shape, loadCalls, lastOp>>

-----------------------------------------------------------------------------
(* Rationals: the model of Python floats.                                  *)

RECURSIVE GCD(_, _)
GCD(a, b) == IF b = 0 THEN a ELSE GCD(b, a % b)

Abs(n) == IF n < 0 THEN -n ELSE n

Rat(n, d) ==
    LET s == IF d < 0 THEN -1 ELSE 1
        g == GCD(Abs(n), Abs(d))
    IN  <<(s * n) \div g, (s * d) \div g>>

RLeq(a, b) == a[1] * b[2] <= b[1] * a[2]
RAdd(a, b) == Rat(a[1] * b[2] + b[1] * a[2], a[2] * b[2])
RSub(a, b) == Rat(a[1] * b[2] - b[1] * a[2], a[2] * b[2])
RMul(a, k) == Rat(a[1] * k, a[2])
RDiv(a, k) == Rat(a[1], a[2] * k)
RZero == <<0, 1>>

-----------------------------------------------------------------------------
(* Python values the lookups produce.                                      *)

PyNone == [kind |-> "None"]
PyInt(n) == [kind |-> "int", val |-> n]
KeyError == [kind |-> "KeyError"]
Data(path, rows, cols) == [kind |-> "data", path |-> path, index |-> rows, columns |-> cols]

-----------------------------------------------------------------------------
(* Pedar_asc                                                               *)

NNames == 199
IndexCol == 0
MaxSensor == 99

\* The time column of every recording file of the model.
FileTimes == {<<1, 1>>, <<6, 5>>, <<2, 1>>, <<12, 1>>, <<21, 1>>, <<45, 2>>}

\* pd.read_csv(path, names=range(199), index_col=0): the column named 0 is
\* the index, and the frame's columns are the remaining names.
Pedar_asc(path) ==
    LET names == 0 .. (NNames - 1)
    IN  [path |-> path, index |-> FileTimes, columns |-> names \ {IndexCol}]

id_map_R99(foot, sensor_id) ==
    IF foot = "L" \/ foot = "l" THEN PyInt(sensor_id - 1)
    ELSE IF foot = "R" \/ foot = "r" THEN PyInt(sensor_id + 99)
    ELSE PyNone

id_map(foot, sensor_id) ==
    IF foot = "L" \/ foot = "l" THEN PyInt(sensor_id - 1)
    ELSE IF foot = "R" \/ foot = "r" THEN PyInt(sensor_id + 98)
    ELSE PyNone

\* What a .loc indexer resolves one axis to: the labels it selects, or KeyError.
Labels(set) == [ok |-> TRUE, labels |-> set]
NoLabel == [ok |-> FALSE, labels |-> {}]

\* df.loc[..., key] with a scalar column key: the label must be a column.
LocCol(t, key) ==
    IF key.kind = "int" /\ key.val \in t.columns THEN Labels({key.val}) ELSE NoLabel

\* df.loc[..., a:b] on the sorted integer columns: the labels ranking
\* between a and b, both ends included; None leaves the end open.
LocColSlice(t, a, b) ==
    Labels({c \in t.columns : /\ (a.kind = "int" => c >= a.val)
                              /\ (b.kind = "int" => c <= b.val)})

\* df.loc[time, ...] with a scalar time: the label must be in the index.
LocRow(t, time) ==
    IF time \in t.index THEN Labels({time}) ELSE NoLabel

\* df.loc[start:end, ...] on the ascending time index, both ends included.
LocRowSlice(t, start, end) ==
    Labels({x \in t.index : RLeq(start, x) /\ RLeq(x, end)})

Loc(t, rows, cols) ==
    IF rows.ok /\ cols.ok THEN Data(t.path, rows.labels, cols.labels) ELSE KeyError

get_time_sensor(t, foot, time, sensor_id) ==
    Loc(t, LocRow(t, time), LocCol(t, id_map(foot, sensor_id)))

get_time_seq(t, foot, time, start_sensor_id, end_sensor_id) ==
    Loc(t, LocRow(t, time),
        LocColSlice(t, id_map(foot, start_sensor_id), id_map(foot, end_sensor_id)))

get_sensor_seq(t, foot, sensor_id, start_time, end_time) ==
    Loc(t, LocRowSlice(t, start_time, end_time), LocCol(t, id_map(foot, sensor_id)))

get_time_sensor_slice(t, foot, start_time, end_time, start_sensor_id, end_sensor_id) ==
    Loc(t, LocRowSlice(t, start_time, end_time),
        LocColSlice(t, id_map(foot, start_sensor_id), id_map(foot, end_sensor_id)))

-----------------------------------------------------------------------------
(* Lookups on one table, with inputs from bounded sets.                    *)

Feet == {"L", "l", "R", "r", "X", ""}
ValidFeet == {"L", "l", "R", "r"}
SensorIds == 1 .. MaxSensor
EdgeIds == {1, 2, MaxSensor - 1, MaxSensor}
QueryTimes == {<<1, 1>>, <<3, 2>>, <<12, 1>>, <<30, 1>>}

\* A call to make: the method and its arguments.
Calls ==
    [op : {"id_map"}, foot : Feet, s0 : SensorIds, s1 : {MaxSensor}, t0 : {RZero}, t1 : {RZero}]
    \cup [op : {"get_time_sensor"}, foot : Feet, s0 : EdgeIds, s1 : {MaxSensor},
          t0 : QueryTimes, t1 : {RZero}]
    \cup [op : {"get_time_seq"}, foot : Feet, s0 : EdgeIds, s1 : EdgeIds,
          t0 : QueryTimes, t1 : {RZero}]
    \cup [op : {"get_sensor_seq"}, foot : Feet, s0 : EdgeIds, s1 : {MaxSensor},
          t0 : QueryTimes, t1 : QueryTimes]
    \cup [op : {"get_time_sensor_slice"}, foot : Feet, s0 : EdgeIds, s1 : EdgeIds,
          t0 : QueryTimes, t1 : QueryTimes]

NoCall == [op |-> "none", foot |-> "", s0 |-> 0, s1 |-> 0, t0 |-> RZero, t1 |-> RZero]
Pending == [kind |-> "pending"]

CallIdMap ==
    /\ ret = Pending /\ call.op = "id_map"
    /\ ret' = id_map(call.foot, call.s0)
    /\ UNCHANGED <<tbl, call>>

CallGetTimeSensor ==
    /\ ret = Pending /\ call.op = "get_time_sensor"
    /\ ret' = get_time_sensor(tbl, call.foot, call.t0, call.s0)
    /\ UNCHANGED <<tbl, call>>

CallGetTimeSeq ==
    /\ ret = Pending /\ call.op = "get_time_seq"
    /\ ret' = get_time_seq(tbl, call.foot, call.t0, call.s0, call.s1)
    /\ UNCHANGED <<tbl, call>>

CallGetSensorSeq ==
    /\ ret = Pending /\ call.op = "get_sensor_seq"
    /\ ret' = get_sensor_seq(tbl, call.foot, call.s0, call.t0, call.t1)
    /\ UNCHANGED <<tbl, call>>

CallGetTimeSensorSlice ==
    /\ ret = Pending /\ call.op = "get_time_sensor_slice"
    /\ ret' = get_time_sensor_slice(tbl, call.foot, call.t0, call.t1, call.s0, call.s1)
    /\ UNCHANGED <<tbl, call>>

-----------------------------------------------------------------------------
(* Python strings as sequences of characters, re and float().              *)

Digits == {"0", "1", "2", "3", "4", "5", "6", "7", "8", "9"}
NumChars == Digits \cup {"."}
Lower == {"a", "b", "c", "d", "e", "f", "g", "h", "i", "j", "k", "l", "m",
          "n", "o", "p", "q", "r", "s", "t", "u", "v", "w", "x", "y", "z"}

DigitVal(c) ==
    CASE c = "0" -> 0 [] c = "1" -> 1 [] c = "2" -> 2 [] c = "3" -> 3 [] c = "4" -> 4
      [] c = "5" -> 5 [] c = "6" -> 6 [] c = "7" -> 7 [] c = "8" -> 8 [] c = "9" -> 9

Max(S) == CHOOSE x \in S : \A y \in S : y <= x
Min(S) == CHOOSE x \in S : \A y \in S : x <= y

AllIn(s, from, to, C) == \A i \in from .. to : s[i] \in C

\* What re.search / re.match give: a match with its group(), or None.
Match(g) == [ok |-> TRUE, group |-> g]
NoMatch == [ok |-> FALSE, group |-> <<>>]

\* re.search('^[0-9\.]+[^-]', s): the longest run of digits and dots at
\* the start that leaves one more character, not a dash, after it.
SearchStart(s) ==
    LET ends == {j \in 1 .. (Len(s) - 1) : AllIn(s, 1, j, NumChars) /\ s[j + 1] # "-"}
    IN  IF ends = {} THEN NoMatch ELSE Match(SubSeq(s, 1, Max(ends) + 1))

\* re.search('[^-][0-9\.]+$', s): the leftmost character that is not a
\* dash and is followed by digits and dots, at least one, up to the end.
SearchEnd(s) ==
    LET starts == {p \in 1 .. (Len(s) - 1) : s[p] # "-" /\ AllIn(s, p + 1, Len(s), NumChars)}
    IN  IF starts = {} THEN NoMatch ELSE Match(SubSeq(s, Min(starts), Len(s)))

RECURSIVE DigitsVal(_)
DigitsVal(s) ==
    IF s = <<>> THEN 0
    ELSE DigitsVal(SubSeq(s, 1, Len(s) - 1)) * 10 + DigitVal(s[Len(s)])

RECURSIVE Pow10(_)
Pow10(n) == IF n = 0 THEN 1 ELSE 10 * Pow10(n - 1)

RECURSIVE Strip(_)
Strip(s) ==
    IF s = <<>> THEN s
    ELSE IF s[1] = " " THEN Strip(Tail(s))
    ELSE IF s[Len(s)] = " " THEN Strip(SubSeq(s, 1, Len(s) - 1))
    ELSE s

\* float() of a string without blanks around it: digits with at most one
\* dot and at least one digit, or float() raises ValueError.
FloatStripped(t) ==
    LET dots == {i \in 1 .. Len(t) : t[i] = "."}
        digs == SelectSeq(t, LAMBDA c : c \in Digits)
    IN  IF AllIn(t, 1, Len(t), NumChars) /\ Cardinality(dots) <= 1 /\ Len(digs) >= 1
        THEN [ok |-> TRUE,
              val |-> Rat(DigitsVal(digs),
                          IF dots = {} THEN 1 ELSE Pow10(Len(t) - Max(dots)))]
        ELSE [ok |-> FALSE, val |-> RZero]

\* float(s) on strings of digits, dots, blanks, dashes and letters: the
\* blanks around the number are dropped first.
Float(s) == FloatStripped(Strip(s))

\* float(m.group()): None has no group(), and float() may raise.
FloatOfGroup(m) == IF m.ok THEN Float(m.group) ELSE [ok |-> FALSE, val |-> RZero]

Bounds(fs, fe) ==
    IF fs.ok /\ fe.ok
    THEN [ok |-> TRUE, start |-> fs.val, end |-> fe.val]
    ELSE [ok |-> FALSE, start |-> RZero, end |-> RZero]

\* Lines 62-63 of add_trail: both bounds of a stance string, or an exception.
ParseStance(stance) ==
    Bounds(FloatOfGroup(SearchStart(stance)), FloatOfGroup(SearchEnd(stance)))

-----------------------------------------------------------------------------
(* Python dicts.                                                           *)

EmptyDict == [k \in {} |-> {}]
DictSet(d, k, v) == [x \in (DOMAIN d) \cup {k} |-> IF x = k THEN v ELSE d[x]]

\* A spreadsheet cell: a str, or something else (an empty cell reads as NaN).
Str(s) == [isStr |-> TRUE, s |-> s]
NaN == [isStr |-> FALSE, s |-> <<>>]

-----------------------------------------------------------------------------
(* Pedar_Subject                                                           *)

\* '{}/{}/{}.asc'.format(self.folder, self.name, asc)
AscPath(folder, name, asc) == folder \o <<"/">> \o name \o <<"/">> \o asc \o <<".", "a", "s", "c">>

StartKey(idx) == ToString(idx) \o "_start"
EndKey(idx) == ToString(idx) \o "_end"
SliceKey(idx) == ToString(idx)

\* Lines 67-69: the slice is stored, unless taking it raised.
StoreSlice(node, idx, sl) ==
    IF sl.kind = "KeyError" THEN [node |-> node, exc |-> TRUE]
    ELSE [node |-> DictSet(node, SliceKey(idx), sl), exc |-> FALSE]

\* Lines 62-69 once both searches and conversions are done.
Record(node, asc_object, foot, idx, p) ==
    IF ~p.ok THEN [node |-> node, exc |-> TRUE]
    ELSE StoreSlice(DictSet(DictSet(node, StartKey(idx), p.start), EndKey(idx), p.end),
                    idx,
                    get_time_sensor_slice(asc_object, foot, p.start, p.end, 1, MaxSensor))

\* The body of the try (lines 59-69): the foot node after it, and whether
\* it raised.
StanceBody(node, asc_object, foot, idx, stance) ==
    IF ~stance.isStr THEN [node |-> node, exc |-> FALSE]
    ELSE Record(node, asc_object, foot, idx, ParseStance(stance.s))

\* Without the except clause an exception leaves the loop.
Uncaught(r) == r

\* Lines 70-71: the bare except prints and lets nothing out.
Caught(r) == [r EXCEPT !.exc = FALSE]

\* One pass of the loop (lines 58-71).
StanceStep(node, asc_object, foot, idx, stance) ==
    Caught(StanceBody(node, asc_object, foot, idx, stance))

\* for idx in range(len(stances)): after[i] is the foot node once the
\* first i passes are done, and whether an exception has ended the loop.
StanceLoop(node, asc_object, foot, stances) ==
    LET after[i \in 0 .. Len(stances)] ==
            IF i = 0 THEN [node |-> node, exc |-> FALSE]
            ELSE LET prev == after[i - 1]
                 IN  IF prev.exc THEN prev
                     ELSE StanceStep(prev.node, asc_object, foot, i - 1, stances[i])
    IN  after[Len(stances)]

\* The recording is read only when the time node holds no table of this path.
LoadAscOnce(trails, condition, time, path) ==
    IF "asc" \in DOMAIN trails[condition][time] /\ trails[condition][time]["asc"].path = path
    THEN [obj |-> trails[condition][time]["asc"], read |-> <<>>]
    ELSE [obj |-> Pedar_asc(path), read |-> <<path>>]

\* Line 51: the recording is read, whatever add_trail has read before.
LoadAsc(trails, condition, time, path) ==
    [obj |-> Pedar_asc(path), read |-> <<path>>]

\* Lines 44-45
EnsureCondition(trails, condition) ==
    IF condition \in DOMAIN trails THEN trails ELSE DictSet(trails, condition, EmptyDict)

\* Lines 47-48
EnsureTime(trails, condition, time) ==
    IF time \in DOMAIN trails[condition] THEN trails
    ELSE DictSet(trails, condition, DictSet(trails[condition], time, EmptyDict))

\* self.trails[condition][time][key] = value
SetInTime(trails, condition, time, key, value) ==
    DictSet(trails, condition,
            DictSet(trails[condition], time, DictSet(trails[condition][time], key, value)))

\* Lines 56-71: the foot node is the one the loop filled.
FillFoot(trails, condition, time, foot, read, r) ==
    [trails |-> SetInTime(trails, condition, time, foot, r.node), read |-> read, exc |-> r.exc]

\* Lines 52-71
StoreAsc(trails, condition, time, foot, stances, ld) ==
    FillFoot(SetInTime(trails, condition, time, "asc", ld.obj), condition, time, foot,
             ld.read, StanceLoop(EmptyDict, ld.obj, foot, stances))

\* Lines 51-71
ReadTrail(trails, path, condition, time, foot, stances) ==
    StoreAsc(trails, condition, time, foot, stances, LoadAsc(trails, condition, time, path))

\* Pedar_Subject.add_trail: the subject's trails after the call, the files
\* it read, and whether it raised.
add_trail(trails, folder, name, asc, condition, time, foot, stances) ==
    ReadTrail(EnsureTime(EnsureCondition(trails, condition), condition, time),
              AscPath(folder, name, asc), condition, time, foot, stances)

-----------------------------------------------------------------------------
(* Trails_Parser                                                           *)

\* The condition names handed to the parser.
condition_list == << <<"f">>, <<"n", " ", "w">>, <<"F">> >>

\* self.folder
Folder == <<"s", "u", "b">>

\* [1-9][0-9]* over the whole of d
IsCount(d) == Len(d) >= 1 /\ d[1] \in (Digits \ {"0"}) /\ AllIn(d, 2, Len(d), Digits)

\* re.match('S[1-9][0-9]* (c1|c2|...) [1-9][0-9]*$', asc)
asc_check(asc) ==
    \E i \in 2 .. Len(asc), k \in 1 .. Len(condition_list) :
        /\ asc[1] = "S"
        /\ IsCount(SubSeq(asc, 2, i))
        /\ i + 2 + Len(condition_list[k]) <= Len(asc)
        /\ asc[i + 1] = " "
        /\ SubSeq(asc, i + 2, i + 1 + Len(condition_list[k])) = condition_list[k]
        /\ asc[i + 2 + Len(condition_list[k])] = " "
        /\ IsCount(SubSeq(asc, i + 3 + Len(condition_list[k]), Len(asc)))

LowerBlank == Lower \cup {" "}

\* Where a run of lower-case letters and blanks from p on may end: before a blank.
CondEnds(asc, p) ==
    {q \in p .. (Len(asc) - 1) : AllIn(asc, p, q, LowerBlank) /\ asc[q + 1] = " "}

\* Where such a run may start: after a blank.
CondStarts(asc) ==
    {p \in 2 .. Len(asc) : asc[p - 1] = " " /\ CondEnds(asc, p) # {}}

LongestFrom(asc, starts) ==
    IF starts = {} THEN NoMatch
    ELSE Match(SubSeq(asc, Min(starts), Max(CondEnds(asc, Min(starts)))))

\* re.search('(?<= )[a-z ]+(?= )', asc): from the leftmost character after
\* a blank, the longest run of lower-case letters and blanks that a blank follows.
SearchCondition(asc) == LongestFrom(asc, CondStarts(asc))

\* re.search('[0-9]+$', asc): the run of digits that ends the string.
SearchTime(asc) ==
    LET starts == {p \in 1 .. Len(asc) : AllIn(asc, p, Len(asc), Digits)}
    IN  IF starts = {} THEN NoMatch ELSE Match(SubSeq(asc, Min(starts), Len(asc)))

\* re.search('^S[0-9]+', asc)
SearchSubject(asc) ==
    LET ends == {j \in 2 .. Len(asc) : asc[1] = "S" /\ AllIn(asc, 2, j, Digits)}
    IN  IF ends = {} THEN NoMatch ELSE Match(SubSeq(asc, 1, Max(ends)))

\* The loop goes on with row i, or ends after the last row.
Loop(st, i) == [st EXCEPT !.index = i, !.pc = IF i > Len(st.doc) THEN "done" ELSE "loop"]

\* An entry name that fails asc_check is skipped and the loop goes on.
InvalidEntrySkip(st) == Loop(st, st.index + 1)

\* Lines 89-91: an entry name that fails asc_check ends the loop.
InvalidEntry(st) == [st EXCEPT !.pc = "done"]

\* Lines 102-103
SubjectTrails(st, name) ==
    IF name \in DOMAIN st.subjects THEN st.subjects[name] ELSE EmptyDict

\* Lines 106-107: the subject holds what add_trail built, raised or not.
Added(st, name, r) ==
    [Loop(st, st.index + 1) EXCEPT !.subjects = DictSet(st.subjects, name, r.trails),
                                   !.loaded = st.loaded \o r.read]

\* Lines 93-110 with the three searches done: a search that found nothing
\* raises, and the except clause goes on to the next row.
EntryParsed(st, row, mc, mt, mn) ==
    IF ~mc.ok \/ ~mt.ok \/ ~mn.ok THEN Loop(st, st.index + 1)
    ELSE Added(st, mn.group,
               add_trail(SubjectTrails(st, mn.group), Folder, mn.group, row.asc,
                         mc.group, mt.group, row.foot, row.stances))

\* Lines 93-110: one entry whose name passed asc_check.
Entry(st) ==
    EntryParsed(st, st.doc[st.index], SearchCondition(st.doc[st.index].asc),
                SearchTime(st.doc[st.index].asc), SearchSubject(st.doc[st.index].asc))

\* Lines 85-110: one pass of the loop over the spreadsheet's rows.
Step(st) ==
    IF ~asc_check(st.doc[st.index].asc) THEN InvalidEntry(st) ELSE Entry(st)

State == [doc |-> doc, index |-> index, pc |-> pc, subjects |-> subjects, loaded |-> loaded]

Commit(st) ==
    /\ index' = st.index
    /\ pc' = st.pc
    /\ subjects' = st.subjects
    /\ loaded' = st.loaded

TrailsParserStep ==
    /\ pc = "loop"
    /\ Commit(Step(State))
    /\ UNCHANGED doc

-----------------------------------------------------------------------------
(* FootHeatmap                                                             *)

NoOp == [op |-> "none"]

\* A class attribute: None until load_foot_mask sets it.
None == [isNone |-> TRUE, val |-> EmptyDict]
Some(v) == [isNone |-> FALSE, val |-> v]

NAreas == 198
RightBase == 99
LeftMax == 99

\* The mask images of the model, as rows of pixel values.
MaskA == << <<1, 2, 100>>, <<0, 99, 198>> >>
MaskB == << <<2, 1, 1>>, <<100, 0, 99>> >>
MaskDirs == {"a.png", "b.png"}

\* np.array(Image.open(mask_dir))
ImageOpen(mask_dir) == IF mask_dir = "a.png" THEN MaskA ELSE MaskB

\* ImageOps.mirror: each row is reversed.
Mirror(img) ==
    [y \in 1 .. Len(img) |-> [x \in 1 .. Len(img[y]) |-> img[y][Len(img[y]) + 1 - x]]]

Shape(img) == <<Len(img), Len(img[1])>>
Pixels(shape) == (1 .. shape[1]) \X (1 .. shape[2])

\* np.where(mask == v)
Where(mask, v) == {p \in Pixels(Shape(mask)) : mask[p[1]][p[2]] = v}

\* Lines 118-123: the two dicts load_foot_mask builds.
LeftIndex(l_mask) == [n \in 0 .. (NAreas - 1) |-> Where(l_mask, n + 1)]
RightIndex(r_mask) ==
    [k \in RightBase .. (RightBase + NAreas - 1) |-> Where(r_mask, (k - RightBase) + 1)]

\* FootHeatmap.load_foot_mask: the class attributes after it.
load_foot_mask(cls, mask_dir) ==
    [cls EXCEPT !.l_shape = Some(Shape(ImageOpen(mask_dir))),
                !.l_index = Some(LeftIndex(ImageOpen(mask_dir))),
                !.r_index = Some(RightIndex(Mirror(ImageOpen(mask_dir)))),
                !.loadCalls = Append(cls.loadCalls, mask_dir)]

\* The mask is loaded at every construction.
NeedsLoadAlways(cls) == TRUE

\* Line 88: self.l_index is None
NeedsLoad(cls) == cls.l_index.isNone

\* Lines 88-89
EnsureMask(cls, mask_dir) == IF NeedsLoad(cls) THEN load_foot_mask(cls, mask_dir) ELSE cls

\* np.zeros(shape)
Zeros(shape) == [p \in Pixels(shape) |-> RZero]

\* grid[coords] = v
Paint(grid, coords, v) == [p \in DOMAIN grid |-> IF p \in coords THEN v ELSE grid[p]]

\* Lines 145-150: one pass of the loop over the series' index.
FillOne(cls, hm, n, v) ==
    IF n <= LeftMax
    THEN [hm EXCEPT !.l_pedar = Paint(hm.l_pedar, cls.l_index.val[n], v)]
    ELSE [hm EXCEPT !.r_pedar = Paint(hm.r_pedar, cls.r_index.val[n], v)]

\* FootHeatmap.fill_foot_heat_map: series is node.attribute[attr_name], a
\* sequence of [n, v] in index order.
fill_foot_heat_map(cls, series) ==
    LET after[i \in 0 .. Len(series)] ==
            IF i = 0
            THEN [l_pedar |-> Zeros(cls.l_shape.val), r_pedar |-> Zeros(cls.l_shape.val)]
            ELSE FillOne(cls, after[i - 1], series[i].n, series[i].v)
    IN  after[Len(series)]

\* Elementwise arithmetic on the two grids of a heatmap.
GridAdd(a, b) == [p \in DOMAIN a |-> RAdd(a[p], b[p])]
GridSub(a, b) == [p \in DOMAIN a |-> RSub(a[p], b[p])]
GridMul(a, k) == [p \in DOMAIN a |-> RMul(a[p], k)]
GridDiv(a, k) == [p \in DOMAIN a |-> RDiv(a[p], k)]

HmAdd(x, y) == [l_pedar |-> GridAdd(x.l_pedar, y.l_pedar), r_pedar |-> GridAdd(x.r_pedar, y.r_pedar)]
HmSub(x, y) == [l_pedar |-> GridSub(x.l_pedar, y.l_pedar), r_pedar |-> GridSub(x.r_pedar, y.r_pedar)]
HmMul(x, k) == [l_pedar |-> GridMul(x.l_pedar, k), r_pedar |-> GridMul(x.r_pedar, k)]
HmDiv(x, k) == [l_pedar |-> GridDiv(x.l_pedar, k), r_pedar |-> GridDiv(x.r_pedar, k)]

\* The heap of heatmap objects: an object is its place in the sequence.
\* An operation gives the heap after it and the object it returns.
New(heap, hm) == [heap |-> Append(heap, hm), out |-> Len(heap) + 1]

\* new_hm = self instead of a deep copy: the sum is written into self.
AddInPlace(heap, i, j) ==
    [heap |-> [heap EXCEPT ![i] = HmAdd(heap[i], heap[j])], out |-> i]

\* FootHeatmap.__add__: a deep copy of self, then += other's grids.
Add(heap, i, j) == New(heap, HmAdd(heap[i], heap[j]))

\* FootHeatmap.__sub__
Sub(heap, i, j) == New(heap, HmSub(heap[i], heap[j]))

\* FootHeatmap.__mul__
Mul(heap, i, val) == New(heap, HmMul(heap[i], val))

\* FootHeatmap.__truediv__
TrueDiv(heap, i, val) == New(heap, HmDiv(heap[i], val))

\* sum(hms[1:], start=hms[0]): the objects are added one after the other.
Sum(heap, args) ==
    LET after[i \in 1 .. Len(args)] ==
            IF i = 1 THEN [heap |-> heap, out |-> args[1]]
            ELSE Add(after[i - 1].heap, after[i - 1].out, args[i])
    IN  after[Len(args)]

\* The objects sum() made on the way are dropped once the quotient exists.
Quotient(heap, total, count) ==
    New(SubSeq(total.heap, 1, Len(heap)), HmDiv(total.heap[total.out], count))

\* FootHeatmap.average(*hms), for at least one argument.
average(heap, args) == Quotient(heap, Sum(heap, args), Len(args))

Class == [l_index |-> l_index, r_index |-> r_index, l_shape |-> l_shape, loadCalls |-> loadCalls]

SetClass(cls) ==
    /\ l_index' = cls.l_index
    /\ r_index' = cls.r_index
    /\ l_shape' = cls.l_shape
    /\ loadCalls' = cls.loadCalls

\* Lines 86-91 once the mask is there.
Filled(cls, mask_dir, series) ==
    /\ SetClass(cls)
    /\ hms' = Append(hms, fill_foot_heat_map(cls, series))
    /\ lastOp' = [op |-> "init", mask_dir |-> mask_dir, series |-> series, out |-> Len(hms) + 1]

Done(op, args, val, r) ==
    /\ hms' = r.heap
    /\ lastOp' = [op |-> op, args |-> args, val |-> val, out |-> r.out]
    /\ UNCHANGED <<l_index, r_index, l_shape, loadCalls>>

MaxObjs == 3

\* The attribute series of the model, each a sequence of [n, v].
Entry_(n, v) == [n |-> n, v |-> <<v, 1>>]
SeriesSet ==
    { <<Entry_(0, 3)>>, <<Entry_(99, 5)>>, <<Entry_(98, 3), Entry_(100, 5)>>,
      <<Entry_(1, 3), Entry_(197, 5)>> }
Scalars == {2}

Objs == 1 .. Len(hms)
Room == Len(hms) < MaxObjs

Construct ==
    /\ Room
    /\ \E mask_dir \in MaskDirs, series \in SeriesSet :
           Filled(EnsureMask(Class, mask_dir), mask_dir, series)

DoAdd == Room /\ \E i \in Objs, j \in Objs : Done("add", <<i, j>>, 0, Add(hms, i, j))
DoSub == Room /\ \E i \in Objs, j \in Objs : Done("sub", <<i, j>>, 0, Sub(hms, i, j))
DoMul == Room /\ \E i \in Objs, k \in Scalars : Done("mul", <<i>>, k, Mul(hms, i, k))
DoTrueDiv == Room /\ \E i \in Objs, k \in Scalars : Done("div", <<i>>, k, TrueDiv(hms, i, k))
DoAverage ==
    /\ Room
    /\ \E args \in {<<i>> : i \in Objs} \cup {<<i, j>> : i \in Objs, j \in Objs} :
           Done("average", args, 0, average(hms, args))

HeatInit ==
    /\ hms = <<>> /\ l_index = None /\ r_index = None /\ l_shape = None
    /\ loadCalls = <<>> /\ lastOp = NoOp
    /\ tbl = Pedar_asc(<<>>) /\ call = NoCall /\ ret = Pending
    /\ doc = <<>> /\ index = 1 /\ pc = "idle" /\ subjects = EmptyDict /\ loaded = <<>>

HeatNext ==
    \/ Construct /\ UNCHANGED <<tableVars, ingestVars>>
    \/ DoAdd /\ UNCHANGED <<tableVars, ingestVars>>
    \/ DoSub /\ UNCHANGED <<tableVars, ingestVars>>
    \/ DoMul /\ UNCHANGED <<tableVars, ingestVars>>
    \/ DoTrueDiv /\ UNCHANGED <<tableVars, ingestVars>>
    \/ DoAverage /\ UNCHANGED <<tableVars, ingestVars>>

SpecHeat == HeatInit /\ [][HeatNext]_vars


-----------------------------------------------------------------------------
(* Specifications.  Each one runs one part of the program and leaves the   *)
(* other parts idle.                                                       *)

(* The lookups of one table. *)
TableInit ==
    /\ tbl = Pedar_asc(<<"p">>)
    /\ call \in Calls
    /\ ret = Pending
    /\ doc = <<>> /\ index = 1 /\ pc = "idle" /\ subjects = EmptyDict /\ loaded = <<>>
    /\ hms = <<>> /\ l_index = None /\ r_index = None /\ l_shape = None
    /\ loadCalls = <<>> /\ lastOp = NoOp

TableNext ==
    \/ CallIdMap /\ UNCHANGED <<ingestVars, heatVars>>
    \/ CallGetTimeSensor /\ UNCHANGED <<ingestVars, heatVars>>
    \/ CallGetTimeSeq /\ UNCHANGED <<ingestVars, heatVars>>
    \/ CallGetSensorSeq /\ UNCHANGED <<ingestVars, heatVars>>
    \/ CallGetTimeSensorSlice /\ UNCHANGED <<ingestVars, heatVars>>

SpecTable == TableInit /\ [][TableNext]_vars

(* Trails_Parser over a spreadsheet of DocLen rows. *)
DocLen == 3
NStanceCols == 3

S1f1 == <<"S", "1", " ", "f", " ", "1">>
S2nw1 == <<"S", "2", " ", "n", " ", "w", " ", "1">>
S1F1 == <<"S", "1", " ", "F", " ", "1">>
S0f1 == <<"S", "0", " ", "f", " ", "1">>

\* The cells of the stance columns: "1.2--21", "12-21", an empty cell,
\* "abc", "" and "1--2".
CellList ==
    << Str(<<"1", ".", "2", "-", "-", "2", "1">>),
       Str(<<"1", "2", "-", "2", "1">>),
       NaN,
       Str(<<"a", "b", "c">>),
       Str(<<>>),
       Str(<<"1", "-", "-", "2">>) >>
Cells == {CellList[i] : i \in 1 .. Len(CellList)}

\* The stance columns of a row: NStanceCols cells, taken in turn from k on.
StancesFrom(k) ==
    [i \in 1 .. NStanceCols |-> CellList[((k + i - 1) % Len(CellList)) + 1]]

Row(asc, foot, k) == [asc |-> asc, foot |-> foot, stances |-> StancesFrom(k)]

Rows ==
    { Row(S1f1, "L", 0), Row(S1f1, "R", 1), Row(S1f1, "L", 3), Row(S1f1, "X", 0),
      Row(S2nw1, "L", 5), Row(S1F1, "L", 0), Row(S0f1, "L", 0) }

IngestInit ==
    /\ doc \in [1 .. DocLen -> Rows]
    /\ index = 1
    /\ pc = "loop"
    /\ subjects = EmptyDict
    /\ loaded = <<>>
    /\ tbl = Pedar_asc(<<>>) /\ call = NoCall /\ ret = Pending
    /\ hms = <<>> /\ l_index = None /\ r_index = None /\ l_shape = None
    /\ loadCalls = <<>> /\ lastOp = NoOp

IngestNext == TrailsParserStep /\ UNCHANGED <<tableVars, heatVars>>

SpecIngest == IngestInit /\ [][IngestNext]_vars

(* One call of add_trail on a subject. *)
SubjectName == <<"S", "1">>
CallCondition == <<"f">>
CallTime == <<"1">>

Returned(r) ==
    /\ subjects' = DictSet(subjects, SubjectName, r.trails)
    /\ loaded' = loaded \o r.read
    /\ pc' = IF r.exc THEN "raised" ELSE "returned"

CallAddTrail ==
    /\ pc = "call"
    /\ Returned(add_trail(subjects[SubjectName], Folder, SubjectName, doc[1].asc,
                          CallCondition, CallTime, doc[1].foot, doc[1].stances))
    /\ UNCHANGED <<doc, index>>

CallNext == CallAddTrail /\ UNCHANGED <<tableVars, heatVars>>

\* The subject before the call: new, or holding an earlier trail of the
\* left foot whose stances all parsed.
Earlier ==
    add_trail(EmptyDict, Folder, SubjectName, S1f1, CallCondition, CallTime, "L",
              [i \in 1 .. NStanceCols |-> CellList[1]]).trails

\* Every list of up to NStanceCols cells.
CellLists == UNION {[1 .. k -> Cells] : k \in 0 .. NStanceCols}

AddTrailInit ==
    /\ doc \in {<<[asc |-> S1f1, foot |-> f, stances |-> st]>> :
                    f \in {"L", "R", "X"}, st \in CellLists}
    /\ index = 1
    /\ pc = "call"
    /\ subjects \in {DictSet(EmptyDict, SubjectName, EmptyDict),
                     DictSet(EmptyDict, SubjectName, Earlier)}
    /\ loaded = <<>>
    /\ tbl = Pedar_asc(<<>>) /\ call = NoCall /\ ret = Pending
    /\ hms = <<>> /\ l_index = None /\ r_index = None /\ l_shape = None
    /\ loadCalls = <<>> /\ lastOp = NoOp

SpecAddTrail == AddTrailInit /\ [][CallNext]_vars

\* Every string of up to MaxStanceLen characters, as the only stance.
MaxStanceLen == 6
StanceChars == {"1", "2", ".", "-", "a"}
StanceStrings == UNION {[1 .. k -> StanceChars] : k \in 0 .. MaxStanceLen}

StanceInit ==
    /\ doc \in {<<[asc |-> S1f1, foot |-> f, stances |-> <<Str(s)>>]>> :
                    f \in {"L", "R"}, s \in StanceStrings}
    /\ index = 1
    /\ pc = "call"
    /\ subjects = DictSet(EmptyDict, SubjectName, EmptyDict)
    /\ loaded = <<>>
    /\ tbl = Pedar_asc(<<>>) /\ call = NoCall /\ ret = Pending
    /\ hms = <<>> /\ l_index = None /\ r_index = None /\ l_shape = None
    /\ loadCalls = <<>> /\ lastOp = NoOp

SpecStance == StanceInit /\ [][CallNext]_vars

-----------------------------------------------------------------------------
(* Properties of the lookups (SpecTable).                                  *)

Returned_(op) == call.op = op /\ ret # Pending
LeftFeet == {"L", "l"}
RightFeet == {"R", "r"}

C2_InvalidFootFails ==
    (ret # Pending /\ call.foot \notin ValidFeet) =>
        IF call.op = "id_map" THEN ret.kind = "InvalidFootError"
        ELSE ret.kind \in {"InvalidFootError", "KeyError"}

\* C8: for a foot in {L, R}, times t0 <= t1 and sensor ids s0 <= s1 in 1..99,
\* get_time_sensor_slice gives the rows of the table whose time is within
\* [t0, t1] and exactly the columns id_map(foot, s0) .. id_map(foot, s1).
C8_SliceColumns ==
    (/\ Returned_("get_time_sensor_slice")
     /\ call.foot \in {"L", "R"}
     /\ RLeq(call.t0, call.t1)
     /\ call.s0 <= call.s1) =>
        /\ ret.kind = "data"
        /\ ret.index = {t \in tbl.index : RLeq(call.t0, t) /\ RLeq(t, call.t1)}
        /\ ret.columns = id_map(call.foot, call.s0).val .. id_map(call.foot, call.s1).val

-----------------------------------------------------------------------------
(* Properties of add_trail (SpecAddTrail, SpecStance).                     *)

FootNode == subjects[SubjectName][CallCondition][CallTime][doc[1].foot]
KeysOf(idx) == {StartKey(idx), EndKey(idx), SliceKey(idx)}
Parseable(cell) == cell.isStr /\ ParseStance(cell.s).ok

\* What a parseable entry at index idx leaves under the foot node.
RecordedAt(node, idx, cell) ==
    /\ KeysOf(idx) \subseteq DOMAIN node
    /\ node[StartKey(idx)] = ParseStance(cell.s).start
    /\ node[EndKey(idx)] = ParseStance(cell.s).end
    /\ node[SliceKey(idx)].kind = "data"
    /\ node[SliceKey(idx)].index =
           LocRowSlice(Pedar_asc(AscPath(Folder, SubjectName, doc[1].asc)),
                       ParseStance(cell.s).start, ParseStance(cell.s).end).labels

\* C3: a failure at one stance index never affects another.  After add_trail,
\* every entry that is a parseable string is recorded under the foot node as
\* {i}_start, {i}_end and {i}, whatever comes before or after it; every other
\* entry leaves no key of its index; the foot node holds nothing else; and
\* add_trail has returned without raising.
C3_StanceIsolation ==
    pc # "call" =>
        /\ pc = "returned"
        /\ \A i \in 1 .. Len(doc[1].stances) :
               IF Parseable(doc[1].stances[i])
               THEN RecordedAt(FootNode, i - 1, doc[1].stances[i])
               ELSE KeysOf(i - 1) \cap DOMAIN FootNode = {}
        /\ DOMAIN FootNode \subseteq UNION {KeysOf(i - 1) : i \in 1 .. Len(doc[1].stances)}

C3_Witness ==
    /\ pc = "returned"
    /\ Len(doc[1].stances) = 3
    /\ doc[1].stances[1] = CellList[4]
    /\ doc[1].stances[2] = NaN
    /\ Parseable(doc[1].stances[3])
    /\ DOMAIN FootNode = KeysOf(2)
    /\ subjects[SubjectName] # Earlier

\* "digits with an optional decimal point"
NumericToken(t) ==
    /\ Len(t) >= 1
    /\ AllIn(t, 1, Len(t), NumChars)
    /\ Cardinality({i \in 1 .. Len(t) : t[i] = "."}) <= 1
    /\ \E i \in 1 .. Len(t) : t[i] \in Digits

AllDashes(s, from, to) == AllIn(s, from, to, {"-"})

\* C4: a stance string made of a numeric token a, one or two dashes and a
\* numeric token b is recorded with start = a, end = b and the slice of the
\* foot over the times [a, b].
C4_TokensParsed ==
    pc # "call" =>
        \A i \in 1 .. Len(doc[1].stances[1].s), n \in {1, 2} :
            LET s == doc[1].stances[1].s
                a == SubSeq(s, 1, i)
                b == SubSeq(s, i + n + 1, Len(s))
            IN  (NumericToken(a) /\ NumericToken(b) /\ AllDashes(s, i + 1, i + n)) =>
                    /\ KeysOf(0) \subseteq DOMAIN FootNode
                    /\ FootNode[StartKey(0)] = Float(a).val
                    /\ FootNode[EndKey(0)] = Float(b).val
                    /\ FootNode[SliceKey(0)] =
                           get_time_sensor_slice(
                               Pedar_asc(AscPath(Folder, SubjectName, doc[1].asc)),
                               doc[1].foot, Float(a).val, Float(b).val, 1, MaxSensor)

-----------------------------------------------------------------------------
(* Properties of Trails_Parser (SpecIngest).                               *)

Invalid == {i \in 1 .. Len(doc) : ~asc_check(doc[i].asc)}
FirstInvalid == IF Invalid = {} THEN Len(doc) + 1 ELSE Min(Invalid)

\* The rows add_trail has been called for: those before the loop's
\* position whose name matched and gave a condition.
Called == {i \in 1 .. (index - 1) : asc_check(doc[i].asc) /\ SearchCondition(doc[i].asc).ok}

\* C5: rows are taken strictly in input order, and the first row whose name
\* does not match the pattern ends the ingestion: the loop never moves past
\* it, meeting it changes nothing, and nothing changes afterwards.
C5_StopsAtFirstInvalid ==
    /\ [](index <= FirstInvalid /\ (pc = "done" => index = FirstInvalid))
    /\ [][/\ pc = "loop"
          /\ \/ asc_check(doc[index].asc) /\ index' = index + 1
             \/ /\ ~asc_check(doc[index].asc)
                /\ index' = index /\ pc' = "done"
                /\ subjects' = subjects /\ loaded' = loaded]_vars

C5_Witness ==
    /\ pc = "done"
    /\ index = 2
    /\ asc_check(doc[3].asc)
    /\ subjects # EmptyDict

\* C10 as stated: the number of recordings read equals the number of
\* distinct recording identifiers add_trail was called with.
C10_LoadsOncePerRecording ==
    pc = "done" => Len(loaded) = Cardinality({doc[i].asc : i \in Called})

\* C10 as amended: add_trail reads the recording's file at every call, so the
\* files read are, in order, those of the rows add_trail was called for.
C10_LoadsEveryCall ==
    /\ Len(loaded) = Cardinality(Called)
    /\ \A k \in 1 .. Len(loaded) :
           \E i \in Called :
               /\ Cardinality({j \in Called : j <= i}) = k
               /\ loaded[k] = AscPath(Folder, SearchSubject(doc[i].asc).group, doc[i].asc)

C10_Witness ==
    /\ pc = "done"
    /\ Len(loaded) = 3
    /\ loaded[1] = loaded[2]
    /\ loaded[3] # loaded[1]

\* The index load_foot_mask builds from the image at mask_dir.
LoadedFrom(mask_dir) ==
    /\ l_index = Some(LeftIndex(ImageOpen(mask_dir)))
    /\ r_index = Some(RightIndex(Mirror(ImageOpen(mask_dir))))

ClassVars == <<l_index, r_index, l_shape, loadCalls>>

\* C6: over any sequence of constructions the mask image is loaded at most
\* once: the first construction loads the image it names and fills the shared
\* l_index and r_index, and from then on no step loads again or changes the
\* index, whatever mask_dir a later construction passes.
C6_MaskLoadedOnce ==
    /\ [](/\ Len(loadCalls) <= 1
          /\ (hms # <<>>) => (Len(loadCalls) = 1 /\ LoadedFrom(loadCalls[1]))
          /\ (Len(hms) = 1) => (lastOp.op = "init" /\ loadCalls = <<lastOp.mask_dir>>))
    /\ [][(~l_index.isNone) => UNCHANGED ClassVars]_vars

\* A second construction names another image, whose index would differ, and
\* the index is still the first image's.
C6_Witness ==
    /\ Len(hms) = 2
    /\ lastOp.op = "init"
    /\ lastOp.mask_dir = "b.png"
    /\ loadCalls = <<"a.png">>
    /\ LoadedFrom("a.png")
    /\ LeftIndex(MaskA) # LeftIndex(MaskB)

LeftChannels == 0 .. 98
RightChannels == 99 .. 197

\* The value the claim puts at pixel p of a grid whose mask is m: the value
\* of the channel of chans whose region (mask value n - base + 1) holds p.
Expected(series, chans, base, m, p) ==
    LET K == {k \in 1 .. Len(series) :
                 /\ series[k].n \in chans
                 /\ m[p[1]][p[2]] = (series[k].n - base) + 1}
    IN  IF K = {} THEN RZero ELSE series[CHOOSE k \in K : TRUE].v

\* C7: a distribution built from a series holds, at every left-grid pixel,
\* the value of the channel c in 0..98 whose mask value c + 1 the pixel has,
\* and at every right-grid pixel the value of the channel c in 99..197 whose
\* mirrored-mask value c - 98 the pixel has; every other pixel is zero.
C7_PaintsByChannel ==
    (lastOp.op = "init") =>
        \A p \in Pixels(l_shape.val) :
            /\ hms[lastOp.out].l_pedar[p] =
                   Expected(lastOp.series, LeftChannels, 0, ImageOpen(loadCalls[1]), p)
            /\ hms[lastOp.out].r_pedar[p] =
                   Expected(lastOp.series, RightChannels, 99, Mirror(ImageOpen(loadCalls[1])), p)

ArithOps == {"add", "sub", "mul", "div", "average"}

\* The sum of pixel p of grid g over the objects args names.
SumAt(args, g, p) ==
    LET upto[i \in 0 .. Len(args)] ==
            IF i = 0 THEN RZero ELSE RAdd(upto[i - 1], hms[args[i]][g][p])
    IN  upto[Len(args)]

\* The elementwise result of the last operation at pixel p of grid g.
ResultAt(g, p) ==
    CASE lastOp.op = "add" -> RAdd(hms[lastOp.args[1]][g][p], hms[lastOp.args[2]][g][p])
      [] lastOp.op = "sub" -> RSub(hms[lastOp.args[1]][g][p], hms[lastOp.args[2]][g][p])
      [] lastOp.op = "mul" -> RMul(hms[lastOp.args[1]][g][p], lastOp.val)
      [] lastOp.op = "div" -> RDiv(hms[lastOp.args[1]][g][p], lastOp.val)
      [] lastOp.op = "average" -> RDiv(SumAt(lastOp.args, g, p), Len(lastOp.args))

\* C9: add, subtract, scale, divide and average each return a new object
\* whose two grids hold the elementwise result, and leave both grids of every
\* object that existed before, the operands among them, unchanged, also when
\* one object is both operands.
C9_ValueSemantics ==
    /\ []((lastOp.op \in ArithOps) =>
              /\ lastOp.out = Len(hms)
              /\ \A i \in 1 .. Len(lastOp.args) : lastOp.args[i] < lastOp.out
              /\ \A g \in {"l_pedar", "r_pedar"} : \A p \in Pixels(l_shape.val) :
                     hms[lastOp.out][g][p] = ResultAt(g, p))
    /\ [][(lastOp'.op \in ArithOps) =>
              /\ Len(hms') = Len(hms) + 1
              /\ \A k \in 1 .. Len(hms) : hms'[k] = hms[k]]_vars

\* An object with a painted pixel was added to itself.
C9_Witness ==
    /\ lastOp.op = "add"
    /\ lastOp.args = <<1, 1>>
    /\ lastOp.out = 2
    /\ \E p \in Pixels(l_shape.val) : hms[1].l_pedar[p] # RZero
    /\ hms[2] # hms[1]

====
